---- MODULE Spec2Model ----
(***************************************************************************)
(* Rent Easy backend (src/unnamed/part_000), Chat Point backend            *)
(* (src/server.cjs) and the Chat Point service worker (src/sw.js).         *)
(*                                                                         *)
(* A request travels in `req`; the handler that serves it writes `resp`.   *)
(* `resp = NoResp` means the request in `req` has not been answered yet.   *)
(***************************************************************************)
EXTENDS Integers, Sequences, FiniteSets, Bags, TLC

VARIABLES
  req,            \* the request being served (order and shop routes)
  resp,           \* its response, NoResp until the handler answers
  orders,         \* the Order collection of Rent Easy, in insertion order
  accounts,       \* the User and Owner collections, by model
  pending,        \* the signups between their findOne and their save (a bag)
  authResp,       \* the last answer of a signup or login route
  shops,          \* the Shop collection of Chat Point, in insertion order
  nextShopId,     \* the _id the next Shop gets
  chatOrders,     \* the Order collection of Chat Point, in insertion order
  caches,         \* CacheStorage: the named caches in creation order
  siteRev,        \* the revision of the assets the network serves
  cacheName,      \* CACHE_NAME of the deployed sw.js (chatpoint-v<n>)
  installedName,  \* CACHE_NAME of the worker that last installed, 0 for none
  fetched         \* the last request the fetch listener answered

vars == <<req, resp, orders, accounts, pending, authResp,
          shops, nextShopId, chatOrders, caches, siteRev, cacheName, installedName, fetched>>
rentVars == <<req, resp, orders>>
authVars == <<accounts, pending, authResp>>
shopVars == <<shops, nextShopId, chatOrders>>
swVars == <<caches, siteRev, cacheName, installedName, fetched>>

\* ------------------------------------------------------------ JS values
\* A field the JSON body does not carry (JS undefined).
Undefined == "undefined"
\* An optional number or object: <<>> when absent, <<x>> when present.
None == <<>>
Some(x) == <<x>>
\* !x for the string fields of a body.
Falsy(s) == s \in {Undefined, ""}

NoReq == [op |-> "none"]
NoResp == [status |-> 0, message |-> "", body |-> <<>>]

\* ------------------------------------------------------------ bounds
\* Orders saved, largest qty of a cart entry, signups awaiting save(), shops
\* uploaded, site revisions published, cache names deployed.
MaxOrders == 2
MaxQty == 2
MaxInFlight == 2
MaxShops == 2
MaxRev == 2
MaxNames == 2

\* ------------------------------------------------------------ Rent Easy: Order
\* Strings mongoose casts to an ObjectId.
ObjectIdStrings == {"u1", "u2"}
\* Order ids are 1..Len(orders); BadOrderId stands for a string that is no ObjectId.
BadOrderId == 0

DefaultDeliveryCharge == 30

\* FlattenShop keeping the entries of quantity 0 (qty >= 0 for qty > 0).
FlattenShopMut(entries, acc) ==
  LET F[k \in 0..Len(entries)] ==
        IF k = 0 THEN acc
        ELSE LET e == entries[k]
                 a == F[k - 1]
             IN IF e.qty >= 0
                  THEN [items |-> Append(a.items, [name |-> e.item, price |-> e.price, quantity |-> e.qty]),
                        total |-> a.total + e.qty * e.price]
                  ELSE a
  IN F[Len(entries)]

\* The loop of lines 103-109 over one shop's items, in iteration order.
FlattenShop(entries, acc) ==
  LET F[k \in 0..Len(entries)] ==
        IF k = 0 THEN acc
        ELSE LET e == entries[k]
                 a == F[k - 1]
             IN IF e.qty > 0
                  THEN [items |-> Append(a.items, [name |-> e.item, price |-> e.price, quantity |-> e.qty]),
                        total |-> a.total + e.qty * e.price]
                  ELSE a
  IN F[Len(entries)]

\* The outer loop of lines 100-110: items and total of a cart.
FlattenCart(cart) ==
  LET G[i \in 0..Len(cart)] ==
        IF i = 0 THEN [items |-> <<>>, total |-> 0]
        ELSE FlattenShop(cart[i].items, G[i - 1])
  IN G[Len(cart)]

\* Lines 113-122 with the schema of lines 51-62: status is not passed, so the
\* schema default "pending" applies; _id and date are the insertion rank.
NewOrder(b, id) ==
  [id |-> id,
   userId |-> b.userId,
   user |-> [name |-> b.name, phone |-> b.phone],
   shop |-> b.cart[1][1].shop,
   items |-> FlattenCart(b.cart[1]).items,
   totalAmount |-> b.grandTotal,
   deliveryCharge |-> IF b.deliveryCharge = None THEN DefaultDeliveryCharge ELSE b.deliveryCharge[1],
   address |-> [name |-> b.name, phone |-> b.phone, line1 |-> b.address1, line2 |-> b.address2],
   paymentMethod |-> IF b.paymentMode = Undefined THEN "cash" ELSE b.paymentMode,
   status |-> "pending",
   date |-> id]

\* MissingData without the check of address1.
MissingDataMut(b) ==
  Falsy(b.userId) \/ Falsy(b.name) \/ Falsy(b.phone) \/ b.cart = None

\* Line 98: the presence check of /api/save-order.
MissingData(b) ==
  Falsy(b.userId) \/ Falsy(b.name) \/ Falsy(b.phone) \/ Falsy(b.address1) \/ b.cart = None

\* order.save() validates against the schema: userId must cast to an ObjectId.
OrderValidates(b) == b.userId \in ObjectIdStrings

\* POST /api/save-order, lines 95-130.
SaveOrder ==
  /\ req.op = "saveOrder"
  /\ resp = NoResp
  /\ LET b == req.body IN
       IF MissingData(b)
         THEN /\ resp' = [status |-> 400, message |-> "Missing data", body |-> <<>>]
              /\ orders' = orders
       ELSE IF Len(FlattenCart(b.cart[1]).items) = 0
         THEN /\ resp' = [status |-> 400, message |-> "Cart empty", body |-> <<>>]
              /\ orders' = orders
       ELSE IF ~OrderValidates(b)
         THEN /\ resp' = [status |-> 500, message |-> "Server error", body |-> <<>>]
              /\ orders' = orders
       ELSE /\ orders' = Append(orders, NewOrder(b, Len(orders) + 1))
            /\ resp' = [status |-> 200, message |-> "Order saved!", body |-> <<Len(orders) + 1>>]
  /\ UNCHANGED <<req, authVars, shopVars, swVars>>

\* find(...).sort({ date: -1 }): the orders whose id is in ids, newest first.
NewestFirst(ids) ==
  LET R[k \in 0..Len(orders)] ==
        IF k = 0 THEN <<>>
        ELSE IF k \in ids THEN <<orders[k]>> \o R[k - 1] ELSE R[k - 1]
  IN R[Len(orders)]

\* IsPending filtering out the delivered orders only.
IsPendingMut(o) == o.status # "delivered"

\* The filter { status: "pending" } of line 148.

IsPending(o) == o.status = "pending"

\* GET /api/delivery-orders, lines 146-156.
DeliveryOrders ==
  /\ req.op = "deliveryOrders"
  /\ resp = NoResp
  /\ resp' = [status |-> 200, message |-> "", body |-> NewestFirst({i \in 1..Len(orders) : IsPending(orders[i])})]
  /\ UNCHANGED <<req, orders, authVars, shopVars, swVars>>

\* Line 161: the check of the body of /api/update-order-status.
InvalidStatusData(b) == b.orderId = None \/ b.status \notin {"delivered", "cancelled"}

\* Order.findByIdAndUpdate(orderId, { status }), lines 165-169: no condition
\* on the order's current status.
SetStatus(id, status) == [orders EXCEPT ![id].status = status]

\* POST /api/update-order-status, lines 158-178.
UpdateOrderStatus ==
  /\ req.op = "updateOrderStatus"
  /\ resp = NoResp
  /\ LET b == req.body IN
       IF InvalidStatusData(b)
         THEN /\ resp' = [status |-> 400, message |-> "Invalid data", body |-> <<>>]
              /\ orders' = orders
       ELSE IF b.orderId[1] = BadOrderId
         THEN /\ resp' = [status |-> 500, message |-> "Server error", body |-> <<>>]
              /\ orders' = orders
       ELSE IF b.orderId[1] \notin 1..Len(orders)
         THEN /\ resp' = [status |-> 404, message |-> "Order not found", body |-> <<>>]
              /\ orders' = orders
       ELSE /\ orders' = SetStatus(b.orderId[1], b.status)
            /\ resp' = [status |-> 200, message |-> "", body |-> <<SetStatus(b.orderId[1], b.status)[b.orderId[1]]>>]
  /\ UNCHANGED <<req, authVars, shopVars, swVars>>

\* GET /api/my-orders, lines 184-200.
MyOrders ==
  /\ req.op = "myOrders"
  /\ resp = NoResp
  /\ IF Falsy(req.userId)
       THEN resp' = [status |-> 400, message |-> "Missing x-user-id header", body |-> <<>>]
     ELSE IF req.userId \notin ObjectIdStrings
       THEN resp' = [status |-> 500, message |-> "Error loading orders", body |-> <<>>]
     ELSE resp' = [status |-> 200, message |-> "",
                   body |-> NewestFirst({i \in 1..Len(orders) : orders[i].userId = req.userId})]
  /\ UNCHANGED <<req, orders, authVars, shopVars, swVars>>

\* ------------------------------------------------------------ request bodies
ShopNames == {"s1", "s2"}
ItemNames == {"a", "b"}
Qtys == -1..MaxQty
\* The price a client sends for an item.
PriceOf(item) == IF item = "a" THEN 10 ELSE 25

CartEntries == {[item |-> i, qty |-> q, price |-> PriceOf(i)] : i \in ItemNames, q \in Qtys}

\* The items of one shop: an object has each key once.
ShopItemLists ==
  {<<>>} \cup {<<e>> : e \in CartEntries}
         \cup {l \in CartEntries \X CartEntries : l[1].item # l[2].item}

CartShops == [shop : ShopNames, items : ShopItemLists]

\* cart: shop -> item -> {qty, price}, as the sequence for..in walks.
Carts ==
  {<<>>} \cup {<<s>> : s \in CartShops}
         \cup {c \in CartShops \X CartShops : c[1].shop # c[2].shop}

SaveBody(u, n, p, a, c, g, d) ==
  [userId |-> u, name |-> n, phone |-> p, address1 |-> a, address2 |-> Undefined,
   cart |-> c, itemsTotal |-> None, deliveryCharge |-> d, grandTotal |-> g,
   paymentMode |-> Undefined]

GrandTotals == {None, Some(0), Some(40)}
DeliveryCharges == {None, Some(0)}

\* Bodies with every cart, and bodies with every combination of absent fields.
CartRequests ==
  {[op |-> "saveOrder", body |-> SaveBody("u1", "n", "p", "a1", Some(c), g, d)] :
     c \in Carts, g \in GrandTotals, d \in DeliveryCharges}
  \cup
  {[op |-> "saveOrder", body |-> SaveBody(u, n, p, a, c, Some(40), None)] :
     u \in {Undefined, "", "u1", "zz"}, n \in {Undefined, "n"}, p \in {Undefined, "p"},
     a \in {Undefined, "", "a1"},
     c \in {None, Some(<<>>), Some(<<[shop |-> "s1", items |-> <<[item |-> "a", qty |-> 1, price |-> 10]>>]>>)}}

SampleCarts ==
  { <<[shop |-> "s1", items |-> <<[item |-> "a", qty |-> 1, price |-> 10]>>]>>,
    <<[shop |-> "s2", items |-> <<[item |-> "a", qty |-> 0, price |-> 10]>>]>> }

RentRequests ==
  {[op |-> "saveOrder", body |-> SaveBody(u, "n", "p", "a1", Some(c), g, None)] :
     u \in {"u1", "u2", Undefined}, c \in SampleCarts, g \in {Some(40)}}
  \cup
  {[op |-> "updateOrderStatus", body |-> [orderId |-> i, status |-> s]] :
     i \in {None} \cup {Some(k) : k \in 0..MaxOrders + 1},
     s \in {"delivered", "cancelled", "pending", Undefined}}
  \cup {[op |-> "deliveryOrders"]}
  \cup {[op |-> "myOrders", userId |-> u] : u \in {Undefined, "u1", "u2", "zz"}}

\* A client sends the next request once the previous one is answered; the
\* Order collection is capped at MaxOrders documents.
Arrive ==
  /\ resp # NoResp \/ req = NoReq
  /\ \E r \in RentRequests :
       /\ r.op = "saveOrder" => Len(orders) < MaxOrders
       /\ req' = r
  /\ resp' = NoResp
  /\ UNCHANGED <<orders, authVars, shopVars, swVars>>

\* ------------------------------------------------------------ accounts
\* The User collection of Rent Easy, the Owner and User collections of Chat Point.
Models == {"rent.user", "chat.owner", "chat.user"}
NoAuthResp == [op |-> "none", ep |-> "none", status |-> 0]

\* Model.findOne({ phone }): the first document with that phone, if any.
FindByPhone(m, phone) ==
  LET hits == SelectSeq(accounts[m], LAMBDA d : d.phone = phone)
  IN IF hits = <<>> THEN None ELSE Some(Head(hits))

\* part_000 line 71, server.cjs lines 127 and 163: the presence check of a signup.
SignupIncomplete(m, b) ==
  IF m = "chat.owner" THEN Falsy(b.phone) \/ Falsy(b.password)
  ELSE Falsy(b.name) \/ Falsy(b.phone) \/ Falsy(b.password)

\* The document a signup builds: the Owner schema has no name.
NewAccount(m, b) ==
  [name |-> IF m = "chat.owner" THEN Undefined ELSE b.name,
   phone |-> b.phone, password |-> b.password]

\* DuplicateKey of a collection without the unique index.
DuplicateKeyMut(m, doc) == FALSE

\* phone: { unique: true } (part_000 line 38, server.cjs lines 53 and 60): the
\* unique index rejects an insert whose phone some document already has.

DuplicateKey(m, doc) == \E k \in 1..Len(accounts[m]) : accounts[m][k].phone = doc.phone

\* A signup up to the answer of findOne: part_000 lines 70-73, server.cjs
\* lines 126-131 and 162-167. `pending` holds the signups that await save().
SignupLookup(m, b) ==
  /\ BagCardinality(pending) < MaxInFlight
  /\ IF SignupIncomplete(m, b) \/ FindByPhone(m, b.phone) # None
       THEN /\ authResp' = [op |-> "signup", ep |-> m, status |-> 400]
            /\ pending' = pending
       ELSE /\ pending' = pending (+) SetToBag({[ep |-> m, doc |-> NewAccount(m, b)]})
            /\ authResp' = authResp
  /\ UNCHANGED <<accounts, rentVars, shopVars, swVars>>

\* The rest of the signup: save() and the answer (part_000 lines 74-80,
\* server.cjs lines 133-139 and 169-175); a rejected insert throws into the
\* catch block.
SignupSave(s) ==
  /\ BagIn(s, pending)
  /\ IF DuplicateKey(s.ep, s.doc)
       THEN /\ authResp' = [op |-> "signup", ep |-> s.ep, status |-> 500]
            /\ accounts' = accounts
       ELSE /\ accounts' = [accounts EXCEPT ![s.ep] = Append(@, s.doc)]
            /\ authResp' = [op |-> "signup", ep |-> s.ep, status |-> 200]
  /\ pending' = pending (-) SetToBag({s})
  /\ UNCHANGED <<rentVars, shopVars, swVars>>

\* LoginStatus with the Chat Point codes for every backend.
LoginStatusMut(m, b) ==
  LET found == FindByPhone(m, b.phone) IN
    IF found = None THEN 404
    ELSE IF found[1].password # b.password THEN 401
    ELSE 200

\* The status of a login: part_000 lines 85-88 (401 for both failures),
\* server.cjs lines 144-150 and 180-186 (404, then 401).
LoginStatus(m, b) ==
  LET found == FindByPhone(m, b.phone) IN
    IF m = "rent.user"
      THEN IF found = None \/ found[1].password # b.password THEN 401 ELSE 200
    ELSE IF found = None THEN 404
    ELSE IF found[1].password # b.password THEN 401
    ELSE 200

\* POST /api/user/login and /api/owner/login.
Login(m, b) ==
  /\ authResp' = [op |-> "login", ep |-> m, status |-> LoginStatus(m, b)]
  /\ UNCHANGED <<accounts, pending, rentVars, shopVars, swVars>>

Phones == {"p1", "p2"}
SignupBodies ==
  {[name |-> "n", phone |-> p, password |-> "x"] : p \in Phones}
  \cup {[name |-> Undefined, phone |-> "p1", password |-> "x"],
        [name |-> "n", phone |-> Undefined, password |-> "x"],
        [name |-> "n", phone |-> "p1", password |-> ""]}
LoginBodies ==
  [phone : Phones, password : {"x", "y"}]
  \cup {[phone |-> Undefined, password |-> "x"], [phone |-> "p1", password |-> Undefined]}

\* ------------------------------------------------------------ Chat Point: shops
\* upload.array("photos", 5), server.cjs line 196.
MaxPhotos == 5

\* Strings mongoose casts to a Number (the price of a multipart body is text).
NumericStrings == {"120"}

\* The loop of lines 203-213: the secure_url of each photo whose upload
\* succeeded, in request order; a failed upload is logged and skipped.
\* Photo k of a request has URL k; uploaded[k] tells whether its upload succeeded.
UploadedUrls(n, uploaded) ==
  LET U[k \in 0..n] ==
        IF k = 0 THEN <<>>
        ELSE IF uploaded[k] THEN Append(U[k - 1], k) ELSE U[k - 1]
  IN U[n]

\* price: Number (line 74): the text of the body, cast.
CastNumber(str) == IF str = "120" THEN Some(120) ELSE None

\* Lines 215-224 with the schema of lines 68-78.
NewShop(b, urls, id) ==
  [id |-> id,
   type |-> IF Falsy(b.type) THEN "shop" ELSE b.type,
   ownerName |-> b.ownerName,
   mobile |-> b.mobile,
   shopName |-> b.shopName,
   itemName |-> b.itemName,
   price |-> CastNumber(b.price),
   description |-> b.description,
   imageUrl |-> urls,
   date |-> id]

\* POST /api/upload, lines 196-232. More than MaxPhotos files make multer
\* fail the request before the handler runs.
Upload ==
  /\ req.op = "upload"
  /\ resp = NoResp
  /\ \E uploaded \in [1..req.files -> BOOLEAN] :
       IF req.files > MaxPhotos
         THEN /\ resp' = [status |-> 500, message |-> "Unexpected field", body |-> <<>>]
              /\ UNCHANGED shopVars
       ELSE IF req.files = 0
         THEN /\ resp' = [status |-> 400, message |-> "No images uploaded", body |-> <<>>]
              /\ UNCHANGED shopVars
       ELSE IF req.body.price \notin NumericStrings \cup {Undefined}
         THEN /\ resp' = [status |-> 500, message |-> "Failed to upload shop", body |-> <<>>]
              /\ UNCHANGED shopVars
       ELSE /\ shops' = Append(shops, NewShop(req.body, UploadedUrls(req.files, uploaded), nextShopId))
            /\ nextShopId' = nextShopId + 1
            /\ chatOrders' = chatOrders
            /\ resp' = [status |-> 200, message |-> "Shop uploaded successfully",
                        body |-> <<NewShop(req.body, UploadedUrls(req.files, uploaded), nextShopId)>>]
  /\ UNCHANGED <<req, orders, authVars, swVars>>

\* GET /api/shops, lines 234-242: every shop, newest first.
ListShops ==
  /\ req.op = "listShops"
  /\ resp = NoResp
  /\ resp' = [status |-> 200, message |-> "",
              body |-> [k \in 1..Len(shops) |-> shops[Len(shops) + 1 - k]]]
  /\ UNCHANGED <<req, orders, authVars, shopVars, swVars>>

\* DELETE /api/shop/:id, lines 244-254.
DeleteShop ==
  /\ req.op = "deleteShop"
  /\ resp = NoResp
  /\ IF \E k \in 1..Len(shops) : shops[k].id = req.id
       THEN /\ shops' = SelectSeq(shops, LAMBDA sh : sh.id # req.id)
            /\ resp' = [status |-> 200, message |-> "Shop deleted successfully", body |-> <<>>]
       ELSE /\ shops' = shops
            /\ resp' = [status |-> 404, message |-> "Shop not found", body |-> <<>>]
  /\ UNCHANGED <<req, orders, authVars, nextShopId, chatOrders, swVars>>

\* ------------------------------------------------------------ Chat Point: orders
\* The price /api/order gives every line item (line 276).
FixedItemPrice == 100

\* Lines 290-291: the numbers parsed out of "Lat: x, Lng: y". None stands for
\* the TypeError of split(...)[1] on a text without "Lat: "; -1 for NaN.
NaN == -1
ParseLocation(text) ==
  IF text = "Lat: 12, Lng: 77" THEN Some([lat |-> 12, lng |-> 77])
  ELSE IF text = "Lat: north, Lng: 77" THEN Some([lat |-> NaN, lng |-> 77])
  ELSE None

\* Lines 263-270: the presence check of /api/order. items maps names to
\* quantities, given as the sequence Object.keys walks.
IncompleteOrder(b) ==
  \/ Falsy(b.user.name)
  \/ Falsy(b.user.phone)
  \/ b.items = None
  \/ b.items = Some(<<>>)
  \/ Falsy(b.address.line1)
  \/ Falsy(b.address.location)

\* Lines 274-278.
OrderItems(items) ==
  [k \in 1..Len(items) |->
     [name |-> items[k].name, price |-> FixedItemPrice, quantity |-> items[k].qty]]

\* The fields of lines 294 and 295: the stored method falls back to "cash",
\* the status compares the method as sent.
StoredPaymentMethod(pm) == IF Falsy(pm) THEN "cash" ELSE pm
InitialStatus(pm) == IF pm = "cash" THEN "pending" ELSE "unpaid"

\* Lines 280-297 with the schema of lines 84-113.
NewChatOrder(b, id) ==
  [id |-> id,
   userId |-> IF Falsy(b.userId) THEN Undefined ELSE b.userId,
   user |-> b.user,
   shop |-> IF Falsy(b.shop) THEN "Unknown Shop" ELSE b.shop,
   items |-> OrderItems(b.items[1]),
   totalAmount |-> b.totalAmount,
   deliveryCharge |-> b.deliveryCharge,
   address |-> [name |-> b.address.name, phone |-> b.address.phone,
                line1 |-> b.address.line1, line2 |-> b.address.line2,
                location |-> ParseLocation(b.address.location)[1]],
   paymentMethod |-> StoredPaymentMethod(b.paymentMethod),
   status |-> InitialStatus(b.paymentMethod),
   date |-> id]

\* order.save() validates against the schema of lines 84-113: userId casts to
\* an ObjectId or is null, address.name and address.phone are required, and
\* lat and lng are numbers.
ChatOrderValidates(b) ==
  /\ Falsy(b.userId) \/ b.userId \in ObjectIdStrings
  /\ ~Falsy(b.address.name)
  /\ ~Falsy(b.address.phone)
  /\ ParseLocation(b.address.location)[1].lat # NaN
  /\ ParseLocation(b.address.location)[1].lng # NaN

\* POST /api/order, lines 259-305.
PlaceOrder ==
  /\ req.op = "order"
  /\ resp = NoResp
  /\ LET b == req.body IN
       IF IncompleteOrder(b)
         THEN /\ resp' = [status |-> 400, message |-> "Incomplete order data or location missing",
                          body |-> <<>>]
              /\ chatOrders' = chatOrders
       ELSE IF ParseLocation(b.address.location) = None \/ ~ChatOrderValidates(b)
         THEN /\ resp' = [status |-> 500, message |-> "Failed to save order", body |-> <<>>]
              /\ chatOrders' = chatOrders
       ELSE /\ chatOrders' = Append(chatOrders, NewChatOrder(b, Len(chatOrders) + 1))
            /\ resp' = [status |-> 200, message |-> "Order placed successfully",
                        body |-> <<NewChatOrder(b, Len(chatOrders) + 1)>>]
  /\ UNCHANGED <<req, orders, authVars, shops, nextShopId, swVars>>

\* GET /api/orders/:userId, lines 308-317: the user's orders, newest first.
UserOrders ==
  /\ req.op = "userOrders"
  /\ resp = NoResp
  /\ IF req.userId \notin ObjectIdStrings
       THEN resp' = [status |-> 500, message |-> "Failed to fetch orders", body |-> <<>>]
     ELSE LET mine == SelectSeq(chatOrders, LAMBDA o : o.userId = req.userId)
          IN resp' = [status |-> 200, message |-> "",
                      body |-> [k \in 1..Len(mine) |-> mine[Len(mine) + 1 - k]]]
  /\ UNCHANGED <<req, orders, authVars, shopVars, swVars>>

OrderBody(u, n, its, line1, loc, an, pm) ==
  [userId |-> u, user |-> [name |-> n, phone |-> "p"], shop |-> Undefined, items |-> its,
   totalAmount |-> 130, deliveryCharge |-> 30,
   address |-> [name |-> an, phone |-> "p", line1 |-> line1, line2 |-> Undefined, location |-> loc],
   paymentMethod |-> pm]

PaymentMethods == {Undefined, "", "cash", "upi"}
Locations == {Undefined, "Lat: 12, Lng: 77", "Lat: north, Lng: 77", "12, 77"}

GoodItems == Some(<<[name |-> "a", qty |-> 2]>>)
GoodLocation == "Lat: 12, Lng: 77"

\* Bodies with every payment method, and bodies with one field absent or malformed.
OrderRequests ==
  {[op |-> "order", body |-> OrderBody(u, "n", GoodItems, "l1", GoodLocation, "n", pm)] :
     u \in {Undefined, "u1", "u2"}, pm \in PaymentMethods}
  \cup {[op |-> "order", body |-> OrderBody("zz", "n", GoodItems, "l1", GoodLocation, "n", "cash")]}
  \cup {[op |-> "order", body |-> OrderBody("u1", Undefined, GoodItems, "l1", GoodLocation, "n", "cash")]}
  \cup {[op |-> "order", body |-> OrderBody("u1", "n", its, "l1", GoodLocation, "n", "cash")] :
          its \in {None, Some(<<>>)}}
  \cup {[op |-> "order", body |-> OrderBody("u1", "n", GoodItems, "", GoodLocation, "n", "cash")]}
  \cup {[op |-> "order", body |-> OrderBody("u1", "n", GoodItems, "l1", loc, "n", "upi")] :
          loc \in Locations}
  \cup {[op |-> "order", body |-> OrderBody("u1", "n", GoodItems, "l1", GoodLocation, Undefined, "cash")]}
  \cup {[op |-> "userOrders", userId |-> u] : u \in {"u1", "u2", "zz"}}

\* A client sends the next request to the order routes once the previous one
\* is answered; the Order collection is capped at MaxOrders documents.
ArriveOrder ==
  /\ resp # NoResp \/ req = NoReq
  /\ \E r \in OrderRequests :
       /\ r.op = "order" => Len(chatOrders) < MaxOrders
       /\ req' = r
  /\ resp' = NoResp
  /\ UNCHANGED <<orders, authVars, shopVars, swVars>>

PhotoCounts == {0, 1, 2, MaxPhotos + 1}

ChatRequests ==
  {[op |-> "upload", files |-> n, body |-> [ownerName |-> "o", mobile |-> "m", shopName |-> "sn", itemName |-> Undefined,
                    price |-> p, description |-> Undefined, type |-> t]] :
     n \in PhotoCounts, p \in {Undefined, "120", "abc"}, t \in {Undefined, "item"}}
  \cup {[op |-> "listShops"]}
  \cup {[op |-> "deleteShop", id |-> i] : i \in 1..MaxShops}

\* A client sends the next request once the previous one is answered; at most
\* MaxShops uploads are made.
ArriveChat ==
  /\ resp # NoResp \/ req = NoReq
  /\ \E r \in ChatRequests :
       /\ r.op = "upload" => nextShopId <= MaxShops
       /\ req' = r
  /\ resp' = NoResp
  /\ UNCHANGED <<orders, authVars, shopVars, swVars>>

\* ------------------------------------------------------------ service worker
\* urlsToCache, sw.js lines 2-13 (two of the nine paths).
urlsToCache == {"/", "/index.html"}
\* A path the list does not hold.
OtherUrls == {"/api/shops"}

NoFetch == [request |-> [method |-> "none", url |-> ""], source |-> "none", response |-> None]
NetworkError == Some(-1)

EmptyStore == [u \in urlsToCache |-> None]

HasCache(name) == \E k \in 1..Len(caches) : caches[k].name = name

\* The site's content changes: the network now answers with the next revision.
Publish ==
  /\ siteRev < MaxRev
  /\ siteRev' = siteRev + 1
  /\ UNCHANGED <<caches, cacheName, installedName, fetched, rentVars, authVars, shopVars>>

\* A new sw.js is deployed with the next CACHE_NAME (sw.js line 1).
BumpCacheName ==
  /\ installedName = cacheName
  /\ cacheName < MaxNames
  /\ cacheName' = cacheName + 1
  /\ UNCHANGED <<caches, siteRev, installedName, fetched, rentVars, authVars, shopVars>>

\* caches.open(CACHE_NAME): the cache of that name, created last if there is none.
Opened(name) ==
  IF HasCache(name) THEN caches ELSE Append(caches, [name |-> name, store |-> EmptyStore])

\* cache.addAll(urlsToCache): every path with the network's response, or
\* nothing when a request fails.
AddAll(cs, name, ok) ==
  [k \in 1..Len(cs) |->
     IF cs[k].name = name /\ ok
       THEN [cs[k] EXCEPT !.store = [u \in urlsToCache |-> Some(siteRev)]]
       ELSE cs[k]]

\* The install listener, sw.js lines 15-19; a rejected waitUntil discards the worker.
Install ==
  /\ installedName # cacheName
  /\ \E ok \in BOOLEAN :
       /\ caches' = AddAll(Opened(cacheName), cacheName, ok)
       /\ installedName' = IF ok THEN cacheName ELSE installedName
  /\ UNCHANGED <<siteRev, cacheName, fetched, rentVars, authVars, shopVars>>

\* CachesMatch of a network-first worker: the caches are never consulted.
CachesMatchMut(r) == None

\* caches.match(request), sw.js line 23: the caches are searched in the order
\* of their creation; only a GET request matches.

CachesMatch(r) ==
  LET hits == SelectSeq(caches, LAMBDA c : r.method = "GET" /\ r.url \in urlsToCache
                                          /\ c.store[r.url] # None)
  IN IF hits = <<>> THEN None ELSE Head(hits).store[r.url]

\* The fetch listener, sw.js lines 21-27: response || fetch(e.request).
Fetch(r) ==
  /\ installedName # 0
  /\ IF CachesMatch(r) # None
       THEN fetched' = [request |-> r, source |-> "cache", response |-> CachesMatch(r)]
       ELSE \E ok \in BOOLEAN :
              fetched' = [request |-> r, source |-> "network",
                          response |-> IF ok THEN Some(siteRev) ELSE NetworkError]
  /\ UNCHANGED <<caches, siteRev, cacheName, installedName, rentVars, authVars, shopVars>>

FetchRequests == [method : {"GET", "POST"}, url : urlsToCache \cup OtherUrls]

\* ------------------------------------------------------------ specifications
NoAccounts ==
  /\ accounts = [m \in Models |-> <<>>]
  /\ pending = EmptyBag
  /\ authResp = NoAuthResp

NoTraffic ==
  /\ req = NoReq
  /\ resp = NoResp
  /\ orders = <<>>

NoShops ==
  /\ shops = <<>>
  /\ nextShopId = 1
  /\ chatOrders = <<>>

NoWorker ==
  /\ caches = <<>>
  /\ siteRev = 0
  /\ cacheName = 1
  /\ installedName = 0
  /\ fetched = NoFetch

InitRent ==
  /\ NoAccounts /\ NoShops /\ NoWorker
  /\ req = NoReq
  /\ resp = NoResp
  /\ orders = <<>>

NextRent == Arrive \/ SaveOrder \/ UpdateOrderStatus \/ DeliveryOrders \/ MyOrders

SpecRent == InitRent /\ [][NextRent]_vars

\* One /api/save-order request against an empty or a populated collection.
InitCart ==
  /\ NoAccounts /\ NoShops /\ NoWorker
  /\ req \in CartRequests
  /\ resp = NoResp
  /\ orders \in {<<>>,
                 <<NewOrder(SaveBody("u2", "n", "p", "a1",
                     Some(<<[shop |-> "s2", items |-> <<[item |-> "b", qty |-> 1, price |-> 25]>>]>>),
                     Some(55), None), 1)>>}

NextCart == SaveOrder

SpecCart == InitCart /\ [][NextCart]_vars

InitAuth == NoAccounts /\ NoTraffic /\ NoShops /\ NoWorker

NextAuth ==
  \/ \E m \in Models, b \in SignupBodies : SignupLookup(m, b)
  \/ \E s \in BagToSet(pending) : SignupSave(s)
  \/ \E m \in Models, b \in LoginBodies : Login(m, b)

SpecAuth == InitAuth /\ [][NextAuth]_vars

InitChat == NoAccounts /\ NoTraffic /\ NoShops /\ NoWorker

NextChat == ArriveChat \/ Upload \/ ListShops \/ DeleteShop

SpecChat == InitChat /\ [][NextChat]_vars

InitChatOrders == NoAccounts /\ NoTraffic /\ NoShops /\ NoWorker

NextChatOrders == ArriveOrder \/ PlaceOrder \/ UserOrders

SpecChatOrders == InitChatOrders /\ [][NextChatOrders]_vars

InitWorker == NoAccounts /\ NoTraffic /\ NoShops /\ NoWorker

NextWorker ==
  \/ Publish
  \/ BumpCacheName
  \/ Install
  \/ \E r \in FetchRequests : Fetch(r)

SpecWorker == InitWorker /\ [][NextWorker]_vars

\* ------------------------------------------------------------ claims: Rent Easy orders
\* A step in which the handler of `op` answers the request in req.
Answers(op) == req.op = op /\ resp = NoResp /\ resp' # NoResp

\* C2: every order starts "pending", and the only status changes are
\* pending -> delivered and pending -> cancelled.
C2_StatusLifecycle ==
  [][/\ Len(orders') > Len(orders) => orders'[Len(orders')].status = "pending"
     /\ \A i \in 1..Len(orders) :
          orders'[i].status # orders[i].status =>
            /\ orders[i].status = "pending"
            /\ orders'[i].status \in {"delivered", "cancelled"}]_vars

\* A required field of the body is missing or empty.
RequiredAbsent(b) ==
  \/ \E f \in {"userId", "name", "phone", "address1"} : b[f] \in {Undefined, ""}
  \/ b.cart \in {None, Some(<<>>)}

\* userId, name, phone and address1 are non-empty and a cart is given.
FieldsPresent(b) ==
  /\ \A f \in {"userId", "name", "phone", "address1"} : b[f] \notin {Undefined, ""}
  /\ b.cart # None

\* Some (shop, item) pair of the cart has a positive quantity.
HasPositiveQty(cart) ==
  \E i \in 1..Len(cart) : \E j \in 1..Len(cart[i].items) : cart[i].items[j].qty > 0

\* C3: a /api/save-order request with userId, name, phone, address1 or cart
\* missing or empty answers 400 and leaves the Order collection unchanged; the
\* collection changes only for a request with all five present and a cart entry
\* of positive quantity, and then by exactly one appended order.
C3_ValidatesBeforePersisting ==
  [][Answers("saveOrder") =>
       /\ RequiredAbsent(req.body) => resp'.status = 400 /\ orders' = orders
       /\ orders' # orders =>
            /\ ~RequiredAbsent(req.body)
            /\ HasPositiveQty(req.body.cart[1])
            /\ Len(orders') = Len(orders) + 1
            /\ SubSeq(orders', 1, Len(orders)) = orders]_vars

C3_Witness ==
  /\ req.op = "saveOrder"
  /\ resp.status = 400
  /\ req.body.address1 = ""
  /\ ~Falsy(req.body.userId) /\ ~Falsy(req.body.name) /\ ~Falsy(req.body.phone)
  /\ req.body.cart # None /\ req.body.cart # Some(<<>>)
  /\ Len(orders) = 1

\* Every (shop, item) entry of a cart, shop by shop.
RECURSIVE CartPairs(_)
CartPairs(cart) ==
  IF cart = <<>> THEN <<>> ELSE Head(cart).items \o CartPairs(Tail(cart))

PositiveQty(e) == e.qty > 0

PositivePairs(cart) == SelectSeq(CartPairs(cart), PositiveQty)

\* C4: the persisted items are one {name, price, quantity} per (shop, item)
\* pair with qty > 0, in iteration order, and nothing for the other pairs; a
\* cart with no such pair answers 400 "Cart empty" and persists nothing.
C4_FlattensCart ==
  [][Answers("saveOrder") /\ FieldsPresent(req.body) =>
       LET pairs == PositivePairs(req.body.cart[1]) IN
         /\ pairs = <<>> =>
              /\ resp'.status = 400
              /\ resp'.message = "Cart empty"
              /\ orders' = orders
         /\ orders' # orders =>
              LET items == orders'[Len(orders')].items IN
                /\ Len(items) = Len(pairs)
                /\ \A k \in 1..Len(pairs) :
                     items[k] = [name |-> pairs[k].item, price |-> pairs[k].price,
                                 quantity |-> pairs[k].qty]]_vars

C4_Witness ==
  /\ req.op = "saveOrder"
  /\ resp.status = 200
  /\ Len(req.body.cart[1]) = 2
  /\ Len(CartPairs(req.body.cart[1])) = 4
  /\ Len(orders[Len(orders)].items) = 2
  /\ orders[Len(orders)].items[1].name = "b"
  /\ orders[Len(orders)].items[2].name = "b"

\* C5: /api/delivery-orders returns exactly the orders whose status is
\* "pending"; a newly saved order is pending, and an order that has left
\* "pending" never is pending again.
C5_DeliveryTracksStatus ==
  /\ [](req.op = "deliveryOrders" /\ resp # NoResp =>
          /\ resp.status = 200
          /\ \A k \in 1..Len(resp.body) : resp.body[k] = orders[resp.body[k].id]
          /\ {resp.body[k].id : k \in 1..Len(resp.body)}
               = {i \in 1..Len(orders) : orders[i].status = "pending"}
          /\ Len(resp.body) = Cardinality({i \in 1..Len(orders) : orders[i].status = "pending"}))
  /\ [][/\ Len(orders') > Len(orders) => orders'[Len(orders')].status = "pending"
        /\ \A i \in 1..Len(orders) :
             orders[i].status # "pending" => orders'[i].status # "pending"]_vars

C5_Witness ==
  /\ req.op = "deliveryOrders"
  /\ resp # NoResp
  /\ Len(orders) = 2
  /\ orders[1].status = "pending"
  /\ orders[2].status = "cancelled"
  /\ Len(resp.body) = 1
  /\ resp.body[1].id = 1

\* The sum of quantity * price over line items.
RECURSIVE ItemsTotal(_)
ItemsTotal(items) ==
  IF items = <<>> THEN 0
  ELSE Head(items).quantity * Head(items).price + ItemsTotal(Tail(items))

\* C10: every persisted order's totalAmount is the sum of quantity * price
\* over its items plus its deliveryCharge.
C10_TotalFromCart ==
  \A i \in 1..Len(orders) :
    orders[i].totalAmount = Some(ItemsTotal(orders[i].items) + orders[i].deliveryCharge)

\* ------------------------------------------------------------ claims: accounts
\* No collection holds two documents with the same phone.
PhonesUnique ==
  \A m \in Models : \A j, k \in 1..Len(accounts[m]) :
    j # k => accounts[m][j].phone # accounts[m][k].phone

Registered(m, phone) == \E k \in 1..Len(accounts[m]) : accounts[m][k].phone = phone

\* C1 as stated: phones are unique in each collection, and every signup for a
\* phone that is registered when the request is answered gets 400 and leaves
\* the collection unchanged.
C1_UniqueAnd400 ==
  /\ []PhonesUnique
  /\ [][/\ \A m \in Models, b \in SignupBodies :
             SignupLookup(m, b) /\ Registered(m, b.phone) =>
               authResp'.status = 400 /\ accounts' = accounts
        /\ \A s \in BagToSet(pending) :
             SignupSave(s) /\ Registered(s.ep, s.doc.phone) =>
               authResp'.status = 400 /\ accounts' = accounts]_vars

\* C1 amended: phones are unique in each collection; a signup whose lookup
\* finds the phone gets 400, a signup whose phone was registered between its
\* lookup and its save gets 500, and both leave the collection unchanged.
C1_UniqueAnd400Or500 ==
  /\ []PhonesUnique
  /\ [][/\ \A m \in Models, b \in SignupBodies :
             SignupLookup(m, b) /\ Registered(m, b.phone) =>
               authResp'.status = 400 /\ accounts' = accounts
        /\ \A s \in BagToSet(pending) :
             SignupSave(s) /\ Registered(s.ep, s.doc.phone) =>
               authResp'.status = 500 /\ accounts' = accounts]_vars

C1_Witness ==
  /\ authResp = [op |-> "signup", ep |-> "chat.owner", status |-> 500]
  /\ Len(accounts["chat.owner"]) = 1
  /\ Len(accounts["rent.user"]) = 1
  /\ Len(accounts["chat.user"]) = 1

\* C9: Chat Point logins answer 404 for an unknown phone, 401 for a wrong
\* password and success for the stored password; the Rent Easy login answers
\* 401 for both failures; no login changes a collection.
C9_LoginStatus ==
  [][\A m \in Models, b \in LoginBodies :
       Login(m, b) =>
         LET known == Registered(m, b.phone)
             match == \E k \in 1..Len(accounts[m]) :
                        /\ accounts[m][k].phone = b.phone
                        /\ accounts[m][k].password = b.password
         IN /\ authResp'.status = 200 <=> match
            /\ ~match /\ m = "rent.user" => authResp'.status = 401
            /\ ~known /\ m # "rent.user" => authResp'.status = 404
            /\ known /\ ~match /\ m # "rent.user" => authResp'.status = 401
            /\ accounts' = accounts
            /\ orders' = orders]_vars

C9_Witness ==
  /\ authResp = [op |-> "login", ep |-> "rent.user", status |-> 401]
  /\ accounts["rent.user"] = <<>>
  /\ Len(accounts["chat.user"]) = 2

\* ------------------------------------------------------------ claims: service worker
\* The cached responses that match request r.
Matching(r) ==
  {caches[k].store[r.url] :
     k \in {j \in 1..Len(caches) :
              r.method = "GET" /\ r.url \in urlsToCache /\ caches[j].store[r.url] # None}}

\* C6: a fetch is answered from the cache when a cached response matches the
\* request, without contacting the network, and from the network otherwise;
\* no fetch changes the contents of a cache.
C6_CacheFirstReadOnly ==
  [][fetched' # fetched =>
       /\ caches' = caches
       /\ Matching(fetched'.request) # {} =>
            /\ fetched'.source = "cache"
            /\ fetched'.response \in Matching(fetched'.request)
       /\ Matching(fetched'.request) = {} =>
            /\ fetched'.source = "network"
            /\ fetched'.response \in {Some(siteRev), NetworkError}]_vars

C6_Witness ==
  /\ fetched.source = "cache"
  /\ fetched.request.url = "/index.html"
  /\ fetched.response = Some(0)
  /\ siteRev = 1
  /\ Len(caches) = 1

\* C7: once a worker with a bumped CACHE_NAME has installed, a fetch of a
\* listed path is answered with the response stored in the cache of that name.
C7_BumpInvalidates ==
  [][/\ fetched' # fetched
     /\ installedName > 1
     /\ fetched'.request.method = "GET"
     /\ fetched'.request.url \in urlsToCache
     => \E k \in 1..Len(caches) :
          /\ caches[k].name = installedName
          /\ fetched'.response = caches[k].store[fetched'.request.url]]_vars

\* ------------------------------------------------------------ claims: shop upload
\* C8: an upload with photos persists one Shop whose imageUrl holds the URL of
\* every photo of the request, in request order; an upload without photos
\* answers 400 and leaves the Shop collection unchanged.
C8_UploadPersistsEveryUrl ==
  [][req.op = "upload" /\ resp = NoResp /\ resp' # NoResp =>
       /\ req.files = 0 => resp'.status = 400 /\ shops' = shops
       /\ /\ req.files \in 1..MaxPhotos
          /\ req.body.price \in NumericStrings \cup {Undefined}
          => /\ Len(shops') = Len(shops) + 1
             /\ SubSeq(shops', 1, Len(shops)) = shops
             /\ shops'[Len(shops')].imageUrl = [k \in 1..req.files |-> k]]_vars

\* ------------------------------------------------------------ claims: Chat Point orders
\* C11: every order persisted by /api/order has status "pending" if and only
\* if its stored paymentMethod is "cash", and status "unpaid" otherwise.
C11_StatusAgreesWithPayment ==
  \A k \in 1..Len(chatOrders) :
    /\ chatOrders[k].status \in {"pending", "unpaid"}
    /\ chatOrders[k].status = "pending" <=> chatOrders[k].paymentMethod = "cash"

====
